---- MODULE Spec2Model ----
(***************************************************************************)
(* PptUploadRow: the upload form of src/ppt/src/PptUploadRow.tsx as a      *)
(* state machine.  The state is the component's useState cells, the        *)
(* continuations of the two async handlers that are suspended at an await  *)
(* (archive reads of handleFileChange, the request of handleStart), and    *)
(* the alert the last step raised.                                         *)
(*                                                                         *)
(* Nullable cells are encoded as sequences: Null is <<>>, a value v is     *)
(* <<v>>.  Strings are TLA+ strings, cut and joined with Len, SubSeq, \o.  *)
(***************************************************************************)
EXTENDS Integers, Sequences, FiniteSets, Bags, TLC

VARIABLES
    selectedReport,      \* useState<string | null>(null)
    fileInfo,            \* useState<FileInfo | null>(null)
    uploadedFile,        \* useState<File | null>(null)
    selectedOptions,     \* useState<string[]>([])
    error,               \* useState<string>("")
    correctedFileUrl,    \* useState<string | null>(null)
    amendedSlidesCount,  \* useState<number | null>(null)
    isProcessing,        \* useState(false)
    reads,               \* bag of handleFileChange continuations suspended at an await
    pc,                  \* where handleStart's continuation is suspended
    formData,            \* the request body of the submission in flight
    response,            \* the Response whose json() is awaited
    submittedFile,       \* the file of the request in flight or behind the result shown
    lastResult,          \* the fields read from the response body behind the result shown
    alertShown           \* the alert() raised by the last step, "" when none

vars == <<selectedReport, fileInfo, uploadedFile, selectedOptions, error,
          correctedFileUrl, amendedSlidesCount, isProcessing, reads, pc,
          formData, response, submittedFile, lastResult, alertShown>>

(***************************************************************************)
(* Encoding of null / undefined                                            *)
(***************************************************************************)
Null == <<>>
Some(v) == <<v>>
Val(c) == c[1]

(***************************************************************************)
(* Bounds of the model                                                     *)
(***************************************************************************)
\* at most this many archive reads suspended at the same time
MaxReads == 1

\* how many entries of the report catalog the user picks from
MaxReports == 2

\* the largest number of slide entries in a generated archive
MaxSlides == 2

(***************************************************************************)
(* Static catalogs                                                         *)
(***************************************************************************)
reportOptions == <<"Report1", "Report2", "Report3", "Report4">>

multiOptions == {"format", "language", "narrative"}

\* the values the report <select> can deliver: the placeholder and the first
\* MaxReports entries of the catalog
ReportChoices ==
    {""} \cup {reportOptions[i] : i \in 1..MaxReports \cap DOMAIN reportOptions}

(***************************************************************************)
(* Strings                                                                 *)
(***************************************************************************)
LowerOf(c) ==
    CASE c = "P" -> "p"
      [] c = "T" -> "t"
      [] c = "X" -> "x"
      [] c = "Q" -> "q"
      [] c = "D" -> "d"
      [] OTHER -> c

RECURSIVE toLowerCase(_)
toLowerCase(s) ==
    IF Len(s) = 0 THEN ""
    ELSE LowerOf(SubSeq(s, 1, 1)) \o toLowerCase(SubSeq(s, 2, Len(s)))

endsWith(s, suffix) ==
    /\ Len(s) >= Len(suffix)
    /\ SubSeq(s, Len(s) - Len(suffix) + 1, Len(s)) = suffix

startsWith(s, prefix) ==
    /\ Len(s) >= Len(prefix)
    /\ SubSeq(s, 1, Len(prefix)) = prefix

TwoDigits(n) == IF n < 10 THEN "0" \o ToString(n) ELSE ToString(n)

\* `${(size / 1024).toFixed(2)} KB`
sizeKB(size) ==
    LET hundredths == (size * 100 + 512) \div 1024
    IN  ToString(hundredths \div 100) \o "." \o TwoDigits(hundredths % 100) \o " KB"

(***************************************************************************)
(* The files the picker can deliver.  readable: file.arrayBuffer()         *)
(* resolves; zip: JSZip.loadAsync resolves; entries: Object.keys(zip.files)*)
(***************************************************************************)
LegacyFile ==
    [name |-> "Q1.PPT", size |-> 1536, type |-> "application/vnd.ms-powerpoint",
     readable |-> TRUE, zip |-> FALSE, entries |-> {}]

ModernFile ==
    [name |-> "deck.pptx", size |-> 40000, type |-> "application/vnd.openxmlformats",
     readable |-> TRUE, zip |-> TRUE,
     entries |-> {"[Content_Types].xml", "ppt/presentation.xml",
                  "ppt/slides/slide1.xml", "ppt/slides/slide2.xml",
                  "ppt/slides/_rels/slide1.xml.rels",
                  "ppt/slideLayouts/slideLayout1.xml"}]

CorruptFile ==
    [name |-> "Talk.PptX", size |-> 700, type |-> "",
     readable |-> TRUE, zip |-> FALSE, entries |-> {}]

GoneFile ==
    [name |-> "gone.pptx", size |-> 0, type |-> "application/vnd.openxmlformats",
     readable |-> FALSE, zip |-> FALSE, entries |-> {}]

OtherFile ==
    [name |-> "notes.ppt.txt", size |-> 10, type |-> "text/plain",
     readable |-> TRUE, zip |-> FALSE, entries |-> {}]

Files == {LegacyFile, ModernFile, CorruptFile, GoneFile, OtherFile}

(***************************************************************************)
(* Messages                                                                *)
(***************************************************************************)
MsgExtension == "Only .ppt or .pptx files are allowed."
MsgReadFailed == "Failed to read pptx file."
MsgNoReport == "Please select a report."
MsgNoFile == "Please upload a PowerPoint file."
MsgNoOption == "Please select at least one option."
MsgNotOk == "Failed to process the PPT file."
MsgFallback == "Error processing the file."
AlertCompleted == "Process completed successfully!"
AlertStarted == "Process started successfully!"

(***************************************************************************)
(* Initial state: the useState initial values, nothing suspended           *)
(***************************************************************************)
Init ==
    /\ selectedReport = Null
    /\ fileInfo = Null
    /\ uploadedFile = Null
    /\ selectedOptions = {}
    /\ error = ""
    /\ correctedFileUrl = Null
    /\ amendedSlidesCount = Null
    /\ isProcessing = FALSE
    /\ reads = EmptyBag
    /\ pc = "idle"
    /\ formData = Null
    /\ response = Null
    /\ submittedFile = Null
    /\ lastResult = Null
    /\ alertShown = ""

(***************************************************************************)
(* File intake: handleFileChange                                           *)
(***************************************************************************)
\* isPptx testing that the name contains ".pptx" instead of ending with it
isPptxIncludes(file) ==
    \E i \in 1..Len(file.name) :
        startsWith(SubSeq(toLowerCase(file.name), i, Len(file.name)), ".pptx")

isPptx(file) == endsWith(toLowerCase(file.name), ".pptx")

\* isPpt testing that the name contains ".ppt" instead of ending with it
isPptIncludes(file) ==
    \E i \in 1..Len(file.name) :
        startsWith(SubSeq(toLowerCase(file.name), i, Len(file.name)), ".ppt")

isPpt(file) == endsWith(toLowerCase(file.name), ".ppt")

\* slideCount is number | "Unknown" | null
Unknown == [tag |-> "Unknown", n |-> 0]
Count(k) == [tag |-> "number", n |-> k]

\* slideFiles without the endsWith(".xml") test
slideFilesPrefixOnly(file) ==
    {filename \in file.entries : startsWith(filename, "ppt/slides/slide")}

\* Object.keys(zip.files).filter(startsWith("ppt/slides/slide") && endsWith(".xml"))
slideFiles(file) ==
    {filename \in file.entries :
        startsWith(filename, "ppt/slides/slide") /\ endsWith(filename, ".xml")}

\* legacyInfo taking the type label from the file
legacyInfoFileType(file) ==
    [name |-> file.name, type |-> file.type, size |-> sizeKB(file.size),
     slideCount |-> Unknown]

\* the FileInfo written for a .ppt file
legacyInfo(file) ==
    [name |-> file.name, type |-> "ppt", size |-> sizeKB(file.size),
     slideCount |-> Unknown]

\* the FileInfo written for a .pptx file whose archive opened
modernInfo(file) ==
    [name |-> file.name, type |-> file.type, size |-> sizeKB(file.size),
     slideCount |-> Count(Cardinality(slideFiles(file)))]

\* a continuation of handleFileChange suspended at `at` for `file`
Read(file, at) == [file |-> file, at |-> at]

\* resetOnSelect without setAmendedSlidesCount(null)
resetOnSelectKeepsCount(file) ==
    /\ uploadedFile' = Some(file)
    /\ correctedFileUrl' = Null
    /\ submittedFile' = Null
    /\ lastResult' = Null
    /\ UNCHANGED amendedSlidesCount

\* the cells a file selection resets before it looks at the file
resetOnSelect(file) ==
    /\ uploadedFile' = Some(file)
    /\ correctedFileUrl' = Null
    /\ amendedSlidesCount' = Null
    /\ submittedFile' = Null
    /\ lastResult' = Null

\* the file input's onChange; files is e.target.files (empty when the dialog is
\* cancelled).  The input is disabled while isProcessing.
handleFileChange(files) ==
    /\ ~isProcessing
    /\ alertShown' = ""
    /\ UNCHANGED <<selectedReport, selectedOptions, isProcessing, pc, formData,
                   response>>
    /\ IF files = <<>>
       THEN UNCHANGED <<uploadedFile, correctedFileUrl, amendedSlidesCount,
                        fileInfo, error, reads, submittedFile, lastResult>>
       ELSE LET file == files[1] IN
            /\ resetOnSelect(file)
            /\ IF ~isPpt(file) /\ ~isPptx(file)
               THEN /\ error' = MsgExtension
                    /\ fileInfo' = Null
                    /\ UNCHANGED reads
               ELSE IF isPpt(file)
               THEN /\ fileInfo' = Some(legacyInfo(file))
                    /\ error' = ""
                    /\ UNCHANGED reads
               ELSE /\ BagCardinality(reads) < MaxReads
                    /\ reads' = reads (+) SetToBag({Read(file, "arrayBuffer")})
                    /\ UNCHANGED <<fileInfo, error>>

\* readFailed without setFileInfo(null)
readFailedKeepsInfo ==
    /\ error' = MsgReadFailed
    /\ UNCHANGED fileInfo

\* the catch block of handleFileChange
readFailed ==
    /\ error' = MsgReadFailed
    /\ fileInfo' = Null

\* `await file.arrayBuffer()` settles for one suspended read
arrayBufferSettles(r) ==
    /\ BagIn(r, reads)
    /\ r.at = "arrayBuffer"
    /\ alertShown' = ""
    /\ UNCHANGED <<selectedReport, selectedOptions, isProcessing, pc, formData,
                   response, submittedFile, lastResult, uploadedFile,
                   correctedFileUrl, amendedSlidesCount>>
    /\ IF r.file.readable
       THEN /\ reads' = (reads (-) SetToBag({r}))
                          (+) SetToBag({Read(r.file, "loadAsync")})
            /\ UNCHANGED <<fileInfo, error>>
       ELSE /\ reads' = reads (-) SetToBag({r})
            /\ readFailed

\* loadAsyncSettles discarding the outcome of a read whose file is no longer held
loadAsyncSettlesLatestOnly(r) ==
    /\ BagIn(r, reads)
    /\ r.at = "loadAsync"
    /\ alertShown' = ""
    /\ reads' = reads (-) SetToBag({r})
    /\ UNCHANGED <<selectedReport, selectedOptions, isProcessing, pc, formData,
                   response, submittedFile, lastResult, uploadedFile,
                   correctedFileUrl, amendedSlidesCount>>
    /\ IF uploadedFile # Some(r.file)
       THEN UNCHANGED <<fileInfo, error>>
       ELSE IF r.file.zip
       THEN /\ fileInfo' = Some(modernInfo(r.file))
            /\ error' = ""
       ELSE readFailed

\* `await JSZip.loadAsync(arrayBuffer)` settles for one suspended read
loadAsyncSettles(r) ==
    /\ BagIn(r, reads)
    /\ r.at = "loadAsync"
    /\ alertShown' = ""
    /\ reads' = reads (-) SetToBag({r})
    /\ UNCHANGED <<selectedReport, selectedOptions, isProcessing, pc, formData,
                   response, submittedFile, lastResult, uploadedFile,
                   correctedFileUrl, amendedSlidesCount>>
    /\ IF r.file.zip
       THEN /\ fileInfo' = Some(modernInfo(r.file))
            /\ error' = ""
       ELSE readFailed

(***************************************************************************)
(* Selection state                                                         *)
(***************************************************************************)
\* the report <select>'s onChange; it carries no disabled attribute
setSelectedReport(value) ==
    /\ selectedReport' = Some(value)
    /\ alertShown' = ""
    /\ UNCHANGED <<fileInfo, uploadedFile, selectedOptions, error, correctedFileUrl,
                   amendedSlidesCount, isProcessing, reads, pc, formData, response,
                   submittedFile, lastResult>>

\* setSelectedOptions that also clears the error
setSelectedOptionsClearsError(opts) ==
    /\ ~isProcessing
    /\ selectedOptions' = opts
    /\ error' = ""
    /\ alertShown' = ""
    /\ UNCHANGED <<selectedReport, fileInfo, uploadedFile, correctedFileUrl,
                   amendedSlidesCount, isProcessing, reads, pc, formData, response,
                   submittedFile, lastResult>>

\* the options <Select>'s onChange; isDisabled while isProcessing
setSelectedOptions(opts) ==
    /\ ~isProcessing
    /\ selectedOptions' = opts
    /\ alertShown' = ""
    /\ UNCHANGED <<selectedReport, fileInfo, uploadedFile, error, correctedFileUrl,
                   amendedSlidesCount, isProcessing, reads, pc, formData, response,
                   submittedFile, lastResult>>

(***************************************************************************)
(* Submission: handleStart                                                 *)
(***************************************************************************)
\* JavaScript truthiness of a nullable string / number cell
truthyString(c) == c # Null /\ Val(c) # ""
truthyNumber(c) == c # Null /\ Val(c) # 0

\* startRejection with the option check moved before the file check
startRejectionOptionsFirst ==
    IF ~truthyString(selectedReport) THEN MsgNoReport
    ELSE IF Cardinality(selectedOptions) = 0 THEN MsgNoOption
    ELSE IF fileInfo = Null \/ uploadedFile = Null THEN MsgNoFile
    ELSE ""

\* the guard clauses of handleStart: the message of the first one that returns,
\* "" when all three pass
startRejection ==
    IF ~truthyString(selectedReport) THEN MsgNoReport
    ELSE IF fileInfo = Null \/ uploadedFile = Null THEN MsgNoFile
    ELSE IF Cardinality(selectedOptions) = 0 THEN MsgNoOption
    ELSE ""

\* clearOnStart without setCorrectedFileUrl(null)
clearOnStartKeepsUrl ==
    /\ error' = ""
    /\ amendedSlidesCount' = Null
    /\ UNCHANGED correctedFileUrl

\* what an accepted submission clears before it branches
clearOnStart ==
    /\ error' = ""
    /\ correctedFileUrl' = Null
    /\ amendedSlidesCount' = Null

\* the FormData built for the request
buildFormData ==
    [file |-> Val(uploadedFile), report |-> Val(selectedReport),
     options |-> selectedOptions]

\* callsApi for any chosen option
callsApiAnyOption == selectedOptions # {}

\* whether the accepted submission goes to the remote endpoint
callsApi == "language" \in selectedOptions

\* handleStart with a button that is not disabled while isProcessing
handleStartNotDisabled ==
    /\ UNCHANGED <<selectedReport, fileInfo, uploadedFile, selectedOptions, reads,
                   response>>
    /\ IF startRejection # ""
       THEN /\ error' = startRejection
            /\ alertShown' = ""
            /\ UNCHANGED <<correctedFileUrl, amendedSlidesCount, isProcessing, pc,
                           formData, submittedFile, lastResult>>
       ELSE /\ clearOnStart
            /\ lastResult' = Null
            /\ IF callsApi
               THEN /\ isProcessing' = TRUE
                    /\ formData' = Some(buildFormData)
                    /\ submittedFile' = uploadedFile
                    /\ pc' = "fetch"
                    /\ alertShown' = ""
               ELSE /\ alertShown' = AlertStarted
                    /\ submittedFile' = Null
                    /\ UNCHANGED <<isProcessing, pc, formData>>

\* the Start button's onClick, up to its first await; the button is disabled
\* while isProcessing
handleStart ==
    /\ ~isProcessing
    /\ UNCHANGED <<selectedReport, fileInfo, uploadedFile, selectedOptions, reads,
                   response>>
    /\ IF startRejection # ""
       THEN /\ error' = startRejection
            /\ alertShown' = ""
            /\ UNCHANGED <<correctedFileUrl, amendedSlidesCount, isProcessing, pc,
                           formData, submittedFile, lastResult>>
       ELSE /\ clearOnStart
            /\ lastResult' = Null
            /\ IF callsApi
               THEN /\ isProcessing' = TRUE
                    /\ formData' = Some(buildFormData)
                    /\ submittedFile' = uploadedFile
                    /\ pc' = "fetch"
                    /\ alertShown' = ""
               ELSE /\ alertShown' = AlertStarted
                    /\ submittedFile' = Null
                    /\ UNCHANGED <<isProcessing, pc, formData>>

\* catchMessage without the fallback
catchMessageNoFallback(message) == message

\* err.message || "Error processing the file."
catchMessage(message) == IF message # "" THEN message ELSE MsgFallback

\* submissionFailed without the finally block
submissionFailedNoFinally(message) ==
    /\ error' = catchMessage(message)
    /\ pc' = "idle"
    /\ formData' = Null
    /\ response' = Null
    /\ submittedFile' = Null
    /\ lastResult' = Null
    /\ alertShown' = ""
    /\ UNCHANGED <<correctedFileUrl, amendedSlidesCount, isProcessing>>

\* catch (err) { setError(...) } finally { setIsProcessing(false) }
submissionFailed(message) ==
    /\ error' = catchMessage(message)
    /\ isProcessing' = FALSE
    /\ pc' = "idle"
    /\ formData' = Null
    /\ response' = Null
    /\ submittedFile' = Null
    /\ lastResult' = Null
    /\ alertShown' = ""
    /\ UNCHANGED <<correctedFileUrl, amendedSlidesCount>>

\* the ways `await fetch(...)` settles: it rejects with an error (whose message
\* may be empty), or resolves with a Response
FetchOutcomes ==
    {[kind |-> "reject", ok |-> FALSE, message |-> m] :
        m \in {"Failed to fetch", ""}}
    \cup {[kind |-> "response", ok |-> b, message |-> ""] : b \in BOOLEAN}

fetchSettles(outcome) ==
    /\ pc = "fetch"
    /\ UNCHANGED <<selectedReport, fileInfo, uploadedFile, selectedOptions, reads>>
    /\ IF outcome.kind = "reject"
       THEN submissionFailed(outcome.message)
       ELSE IF ~outcome.ok
       THEN submissionFailed(MsgNotOk)
       ELSE /\ pc' = "json"
            /\ response' = Some([ok |-> TRUE])
            /\ alertShown' = ""
            /\ UNCHANGED <<error, correctedFileUrl, amendedSlidesCount,
                           isProcessing, formData, submittedFile, lastResult>>

\* the bodies `await response.json()` can deliver: fields that are absent are Null
JsonObjects ==
    [fileUrl : {Null, Some(""), Some("https://x/y.pptx")},
     fileBlob : {Null, Some("UEsDBBQA")},
     amendedSlidesCount : {Null, Some(0), Some(3)}]

\* the ways `await response.json()` settles: the body is no JSON, the body is the
\* JSON value null (reading result.fileUrl then throws), or it is an object
JsonOutcomes ==
    {[kind |-> "reject", message |-> "Unexpected token < in JSON at position 0",
      result |-> Null],
     [kind |-> "value", message |-> "Cannot read properties of null", result |-> Null]}
    \cup {[kind |-> "value", message |-> "", result |-> Some(o)] : o \in JsonObjects}

\* correctedFileUrlFrom with the fileBlob branch decoding the payload into a URL
correctedFileUrlFromBlob(result) ==
    IF truthyString(result.fileUrl) THEN result.fileUrl
    ELSE IF truthyString(result.fileBlob) THEN Some("blob:corrected")
    ELSE Null

\* if (result.fileUrl) ... else if (result.fileBlob) ... else ...
correctedFileUrlFrom(result) ==
    IF truthyString(result.fileUrl) THEN result.fileUrl
    ELSE IF truthyString(result.fileBlob) THEN correctedFileUrl
    ELSE Null

\* amendedSlidesCountFrom without the `|| 0`
amendedSlidesCountNoDefault(result) == result.amendedSlidesCount

\* result.amendedSlidesCount || 0
amendedSlidesCountFrom(result) ==
    IF truthyNumber(result.amendedSlidesCount) THEN result.amendedSlidesCount
    ELSE Some(0)

\* result.fileUrl and result.amendedSlidesCount, the fields that reach a cell
fieldsRead(result) ==
    [fileUrl |-> result.fileUrl, amendedSlidesCount |-> result.amendedSlidesCount]

jsonSettles(outcome) ==
    /\ pc = "json"
    /\ UNCHANGED <<selectedReport, fileInfo, uploadedFile, selectedOptions, reads>>
    /\ IF outcome.kind = "reject" \/ outcome.result = Null
       THEN submissionFailed(outcome.message)
       ELSE /\ correctedFileUrl' = correctedFileUrlFrom(Val(outcome.result))
            /\ amendedSlidesCount' = amendedSlidesCountFrom(Val(outcome.result))
            /\ alertShown' = AlertCompleted
            /\ isProcessing' = FALSE
            /\ pc' = "idle"
            /\ formData' = Null
            /\ response' = Null
            /\ lastResult' = Some(fieldsRead(Val(outcome.result)))
            /\ UNCHANGED <<error, submittedFile>>

(***************************************************************************)
(* The form                                                                *)
(***************************************************************************)
Next ==
    \/ \E value \in ReportChoices : setSelectedReport(value)
    \/ \E opts \in SUBSET multiOptions : setSelectedOptions(opts)
    \/ \E files \in {<<>>} \cup {<<f>> : f \in Files} : handleFileChange(files)
    \/ \E r \in BagToSet(reads) : arrayBufferSettles(r)
    \/ \E r \in BagToSet(reads) : loadAsyncSettles(r)
    \/ handleStart
    \/ \E outcome \in FetchOutcomes : fetchSettles(outcome)
    \/ \E outcome \in JsonOutcomes : jsonSettles(outcome)

Spec == Init /\ [][Next]_vars

\* every pending fetch and every pending json() settles
FairSpec ==
    /\ Spec
    /\ WF_vars(\E outcome \in FetchOutcomes : fetchSettles(outcome))
    /\ WF_vars(\E outcome \in JsonOutcomes : jsonSettles(outcome))

(***************************************************************************)
(* File intake on its own, over a wider set of files: names around the two *)
(* extensions, .ppt files of several sizes, archives with 0..MaxSlides     *)
(* slide entries with and without other entries                            *)
(***************************************************************************)
\* the archive entry of slide k
slidePath(k) == "ppt/slides/slide" \o ToString(k) \o ".xml"

\* entries that are no slide: they miss the prefix, the suffix or both
Decoys ==
    {"[Content_Types].xml", "ppt/slides/_rels/slide1.xml.rels",
     "ppt/slideLayouts/slideLayout1.xml", "ppt/slides/slide1.xml.bak"}

\* a .pptx whose archive opens and holds `entries`
Archive(name, entries) ==
    [name |-> name, size |-> 40000, type |-> "application/vnd.openxmlformats",
     readable |-> TRUE, zip |-> TRUE, entries |-> entries]

\* a file that is no archive
Plain(name, size) ==
    [name |-> name, size |-> size, type |-> "", readable |-> TRUE, zip |-> FALSE,
     entries |-> {}]

IntakeFiles ==
    Files
    \cup {Plain("a.ppt", size) : size \in {0, 1023, 1048576}}
    \cup {Plain(".ppt", 1)}
    \cup {Plain(name, 10) : name \in {"pptx", "ppt", "deck.pptx.bak", "x.pptm"}}
    \cup {Archive("n.pptx", {slidePath(k) : k \in 1..n}) : n \in 0..MaxSlides}
    \cup {Archive("full.pptx", {slidePath(k) : k \in 1..MaxSlides} \cup Decoys),
          Archive("show.pptx", {slidePath(1), "ppt/slides/slideshow.xml"})}

IntakeNext ==
    \/ \E files \in {<<>>} \cup {<<f>> : f \in IntakeFiles} : handleFileChange(files)
    \/ \E r \in BagToSet(reads) : arrayBufferSettles(r)
    \/ \E r \in BagToSet(reads) : loadAsyncSettles(r)

IntakeSpec == Init /\ [][IntakeNext]_vars

(***************************************************************************)
(* The download link                                                       *)
(***************************************************************************)
\* download={`corrected_${fileInfo?.name}`}
downloadName ==
    "corrected_" \o (IF fileInfo = Null THEN "undefined" ELSE Val(fileInfo).name)

(***************************************************************************)
(* Properties                                                              *)
(***************************************************************************)
\* a report is chosen: the cell is neither null nor the placeholder's ""
ReportChosen == selectedReport # Null /\ selectedReport # Some("")

\* a file is present with metadata
FilePresent == fileInfo # Null /\ uploadedFile # Null

\* the name ends in .ppt or .pptx, compared case-insensitively
ExtensionOk(name) ==
    \/ endsWith(toLowerCase(name), ".ppt")
    \/ endsWith(toLowerCase(name), ".pptx")

\* all three preconditions of a submission hold
PreconditionsPass == ReportChosen /\ FilePresent /\ selectedOptions # {}

\* a step that sends a request to the remote endpoint
RequestSent == formData' # Null /\ formData' # formData

\* what a rejected Start leaves alone: every cell but error, and no request
RejectedFrame ==
    /\ UNCHANGED <<uploadedFile, fileInfo, selectedReport, selectedOptions,
                   correctedFileUrl, amendedSlidesCount, isProcessing>>
    /\ ~RequestSent
    /\ pc' = pc
    /\ alertShown' = ""

\* C1: handleStart checks report, then file with metadata, then options; the
\* first check that fails sets its own message (the three differ), sends no
\* request and leaves every other cell unchanged.
C1_PreconditionsInOrder ==
    [][handleStart =>
        /\ Cardinality({MsgNoReport, MsgNoFile, MsgNoOption}) = 3
        /\ ~ReportChosen => (error' = MsgNoReport /\ RejectedFrame)
        /\ (ReportChosen /\ ~FilePresent) => (error' = MsgNoFile /\ RejectedFrame)
        /\ (ReportChosen /\ FilePresent /\ selectedOptions = {})
              => (error' = MsgNoOption /\ RejectedFrame)]_vars

\* C1 witness: Start was rejected for the missing file while the option check
\* would have failed too
C1_Witness ==
    /\ error = MsgNoFile
    /\ ReportChosen
    /\ ~FilePresent
    /\ selectedOptions = {}

\* C2: every accepted submission (a request in flight, or the acknowledgment of a
\* submission without "language") carries a file whose name ends in .ppt or .pptx.
C2_SubmittedFilePassedIntake ==
    /\ formData # Null => ExtensionOk(Val(formData).file.name)
    /\ alertShown = AlertStarted => ExtensionOk(Val(uploadedFile).name)

\* C3 as stated: fileInfo is non-null exactly when the held uploadedFile passed
\* extension validation.
C3_FileInfoIffExtensionOk ==
    (fileInfo # Null) <=> (uploadedFile # Null /\ ExtensionOk(Val(uploadedFile).name))

\* C3 amended: fileInfo, when non-null, is the metadata of a selected file whose
\* name passed extension validation; a selection whose file fails extension
\* validation leaves fileInfo null, and a .ppt selection leaves fileInfo describing
\* the held file.
C3_FileInfoOnlyOfValidFile ==
    [][/\ fileInfo' # Null =>
            /\ uploadedFile' # Null
            /\ ExtensionOk(Val(fileInfo').name)
            /\ \E f \in Files : Val(fileInfo').name = f.name
       /\ \A f \in Files : handleFileChange(<<f>>) =>
            /\ ~ExtensionOk(f.name) => fileInfo' = Null
            /\ endsWith(toLowerCase(f.name), ".ppt") =>
                  (fileInfo' # Null /\ Val(fileInfo').name = Val(uploadedFile').name)]_vars

\* C3 witness: metadata of an earlier .pptx is on display while the held file is
\* one that extension validation rejected
C3_Witness ==
    /\ fileInfo # Null
    /\ uploadedFile # Null
    /\ ~ExtensionOk(Val(uploadedFile).name)
    /\ error = ""

\* C4: a selection that delivers a file nulls correctedFileUrl and
\* amendedSlidesCount in the step that replaces uploadedFile, whatever the
\* validation outcome; a result on display always belongs to the held file.
C4_SelectionResetsResult ==
    [][/\ \A f \in Files : handleFileChange(<<f>>) =>
            /\ uploadedFile' = Some(f)
            /\ correctedFileUrl' = Null
            /\ amendedSlidesCount' = Null
       /\ (correctedFileUrl' # Null \/ amendedSlidesCount' # Null)
            => submittedFile' = uploadedFile']_vars

\* C4 witness: a result is on display and the file input is enabled
C4_Witness ==
    /\ correctedFileUrl # Null
    /\ amendedSlidesCount = Some(3)
    /\ ~isProcessing
    /\ submittedFile = uploadedFile

\* C5: an accepted submission whose options lack "language" sends no request,
\* does not enter the processing state, raises the "started" acknowledgment in
\* the same step and leaves correctedFileUrl and amendedSlidesCount null.
C5_NoLanguageNoRequest ==
    [][(handleStart /\ PreconditionsPass /\ "language" \notin selectedOptions) =>
        /\ ~RequestSent
        /\ pc' = "idle"
        /\ ~isProcessing'
        /\ alertShown' = AlertStarted
        /\ correctedFileUrl' = Null
        /\ amendedSlidesCount' = Null]_vars

\* C5 witness: the "started" acknowledgment was raised
C5_Witness ==
    /\ alertShown = AlertStarted
    /\ "language" \notin selectedOptions
    /\ pc = "idle"

\* a step in which the request of the submission in flight fails: fetch rejects,
\* the status is not a success, json() rejects or reading the result throws
SubmissionFails ==
    \/ \E o \in FetchOutcomes :
          fetchSettles(o) /\ (o.kind = "reject" \/ ~o.ok)
    \/ \E o \in JsonOutcomes :
          jsonSettles(o) /\ (o.kind = "reject" \/ o.result = Null)

\* C6: when the submission in flight fails, the error is non-empty and
\* correctedFileUrl and amendedSlidesCount are null once it has finished.
C6_FailureSetsErrorOnly ==
    [][SubmissionFails =>
        /\ error' # ""
        /\ correctedFileUrl' = Null
        /\ amendedSlidesCount' = Null
        /\ ~isProcessing']_vars

\* C6 witness: a submission ended with a non-success status
C6_Witness ==
    /\ error = MsgNotOk
    /\ ~isProcessing
    /\ correctedFileUrl = Null
    /\ amendedSlidesCount = Null

\* C7: provided the network call settles, a submission that set isProcessing
\* sets it back to false and the form is idle again with Start enabled.
C7_ProcessingEnds == isProcessing ~> (~isProcessing /\ pc = "idle")

\* C7 witness: a submission is in flight, its response body awaited
C7_Witness == isProcessing /\ pc = "json"

\* C8: on a successful response, correctedFileUrl is the body's (non-empty)
\* fileUrl, else null (with or without fileBlob), and amendedSlidesCount is the
\* body's amendedSlidesCount, or 0 when it has none.
C8_ResultApplied ==
    [][\A o \in JsonOutcomes :
          (jsonSettles(o) /\ o.kind = "value" /\ o.result # Null) =>
             LET body == Val(o.result)
                 hasUrl == body.fileUrl # Null /\ body.fileUrl # Some("")
             IN  /\ hasUrl => correctedFileUrl' = body.fileUrl
                 /\ (~hasUrl /\ body.fileBlob # Null) => correctedFileUrl' = Null
                 /\ (~hasUrl /\ body.fileBlob = Null) => correctedFileUrl' = Null
                 /\ body.amendedSlidesCount # Null
                       => amendedSlidesCount' = body.amendedSlidesCount
                 /\ body.amendedSlidesCount = Null
                       => amendedSlidesCount' = Some(0)]_vars

\* C8 witness: the response { fileUrl, amendedSlidesCount: 3 } was applied
C8_Witness ==
    /\ correctedFileUrl = Some("https://x/y.pptx")
    /\ amendedSlidesCount = Some(3)
    /\ alertShown = AlertCompleted

\* C9: while isProcessing, no step changes the chosen report, the chosen options
\* or the uploaded file, and no step sends another request.
C9_InputsFrozenWhileProcessing ==
    [][isProcessing =>
        /\ UNCHANGED <<selectedReport, selectedOptions, uploadedFile>>
        /\ ~RequestSent]_vars

\* C10: a download link on display suggests corrected_<name> with the name of the
\* file that was submitted to produce it.
C10_DownloadNamesSubmittedFile ==
    correctedFileUrl # Null =>
        /\ submittedFile # Null
        /\ downloadName = "corrected_" \o Val(submittedFile).name

\* C11: a selection of a file named .ppt or .pptx clears the error in the step
\* of the selection, and an accepted submission clears it in the step of Start,
\* the step that sends the request.
C11_ErrorClearedAtStart ==
    [][/\ \A f \in Files :
            (handleFileChange(<<f>>) /\ ExtensionOk(f.name)) => error' = ""
       /\ (handleStart /\ PreconditionsPass) => error' = ""]_vars

\* C12 as stated: amendedSlidesCount is non-null only if the last completed
\* submission's success response carried an amendedSlidesCount, correctedFileUrl
\* only if it carried a fileUrl.
C12_PopulatedOnlyFromResponse ==
    /\ amendedSlidesCount # Null =>
          (lastResult # Null /\ Val(lastResult).amendedSlidesCount # Null)
    /\ correctedFileUrl # Null =>
          (lastResult # Null /\ Val(lastResult).fileUrl # Null)

\* C12 amended: amendedSlidesCount is non-null only after a success response, and
\* is then the response's amendedSlidesCount, or 0 when the response carried
\* none; correctedFileUrl is non-null only if that response carried a fileUrl,
\* and is then that fileUrl.
C12_PopulatedOnlyOnSuccess ==
    /\ amendedSlidesCount # Null =>
          /\ lastResult # Null
          /\ \/ amendedSlidesCount = Val(lastResult).amendedSlidesCount
             \/ Val(lastResult).amendedSlidesCount = Null /\ amendedSlidesCount = Some(0)
    /\ correctedFileUrl # Null =>
          /\ lastResult # Null
          /\ correctedFileUrl = Val(lastResult).fileUrl
    /\ lastResult # Null => amendedSlidesCount # Null

\* C12 witness: a success response without amendedSlidesCount and without
\* fileUrl left the count at 0 and no link
C12_Witness ==
    /\ lastResult = Some([fileUrl |-> Null, amendedSlidesCount |-> Null])
    /\ amendedSlidesCount = Some(0)
    /\ correctedFileUrl = Null

\* C13: a selection whose name does not end in .ppt or .pptx sets the
\* unsupported-extension error, sets fileInfo to null and starts no archive read.
C13_OtherExtensionRejected ==
    [][\A f \in IntakeFiles :
          (handleFileChange(<<f>>) /\ ~ExtensionOk(f.name)) =>
             /\ error' = MsgExtension
             /\ fileInfo' = Null
             /\ reads' = reads]_vars

\* C13 witness: a name that only contains .pptx was rejected, with no metadata
\* and no archive read left
C13_Witness ==
    /\ uploadedFile = Some(Plain("deck.pptx.bak", 10))
    /\ error = MsgExtension
    /\ fileInfo = Null
    /\ reads = EmptyBag

\* C14: a selection whose name ends in .ppt, of any size, sets fileInfo in the
\* same step with slideCount "Unknown" and type "ppt", clears the error and
\* starts no archive read.
C14_LegacyInfo ==
    [][\A f \in IntakeFiles :
          (handleFileChange(<<f>>) /\ endsWith(toLowerCase(f.name), ".ppt")) =>
             /\ fileInfo' # Null
             /\ Val(fileInfo').name = f.name
             /\ Val(fileInfo').slideCount = [tag |-> "Unknown", n |-> 0]
             /\ Val(fileInfo').type = "ppt"
             /\ error' = ""
             /\ reads' = reads]_vars

\* C14 witness: the metadata of a 1 MiB .ppt file is on display
C14_Witness ==
    /\ uploadedFile = Some(Plain("a.ppt", 1048576))
    /\ fileInfo # Null
    /\ Val(fileInfo).type = "ppt"
    /\ Val(fileInfo).size = "1024.00 KB"
    /\ error = ""

\* an entry path that starts with ppt/slides/slide and ends with .xml
MatchesSlidePattern(path) ==
    startsWith(path, "ppt/slides/slide") /\ endsWith(path, ".xml")

\* the archive's matching entries are all of the form ppt/slides/slideK.xml
OnlyNumberedSlides(file) ==
    \A path \in file.entries :
        MatchesSlidePattern(path) => \E k \in 0..(MaxSlides + 1) : path = slidePath(k)

\* C15: when the archive of a .pptx opens, the slideCount written is the number
\* of entries matching the pattern; for an archive with exactly N entries
\* ppt/slides/slideK.xml and no other matching entry it is N.
C15_SlideCount ==
    [][\A r \in BagToSet(reads) :
          (loadAsyncSettles(r) /\ r.file.zip) =>
             /\ fileInfo' # Null
             /\ Val(fileInfo').slideCount.tag = "number"
             /\ Val(fileInfo').slideCount.n =
                   Cardinality({path \in r.file.entries : MatchesSlidePattern(path)})
             /\ OnlyNumberedSlides(r.file) =>
                   Val(fileInfo').slideCount.n =
                      Cardinality({k \in 0..(MaxSlides + 1) :
                                      slidePath(k) \in r.file.entries})]_vars

\* C15 witness: an archive with MaxSlides slides among other entries was counted
C15_Witness ==
    /\ fileInfo # Null
    /\ Val(fileInfo).name = "full.pptx"
    /\ Val(fileInfo).slideCount = [tag |-> "number", n |-> MaxSlides]
    /\ reads = EmptyBag

\* a step in which the read of r.file fails: its bytes cannot be read, or they
\* cannot be opened as an archive
ReadFails(r) ==
    \/ arrayBufferSettles(r) /\ ~r.file.readable
    \/ loadAsyncSettles(r) /\ ~r.file.zip

\* C16: a failing read of a .pptx sets the parse error and nulls fileInfo; while
\* the parse error is on display the form holds no metadata, and a Start pressed
\* then (with a report chosen) is rejected with the missing-file error and sends
\* no request.
C16_ParseFailureLeavesNoFile ==
    [][/\ \A r \in BagToSet(reads) :
            ReadFails(r) => (error' = MsgReadFailed /\ fileInfo' = Null)
       /\ error' = MsgReadFailed => fileInfo' = Null
       /\ (handleStart /\ error = MsgReadFailed /\ ReportChosen) =>
            /\ error' = MsgNoFile
            /\ ~RequestSent
            /\ UNCHANGED <<isProcessing, fileInfo, uploadedFile>>]_vars

\* C16 witness: the read of the held .pptx failed and the Start that followed
\* was rejected for the missing file
C16_Witness ==
    /\ uploadedFile = Some(CorruptFile)
    /\ reads = EmptyBag
    /\ fileInfo = Null
    /\ ReportChosen
    /\ selectedOptions # {}
    /\ error = MsgNoFile

\* C17: the completion of a read is applied whether or not its file is still the
\* held one: when file A's read settles while uploadedFile is another file B, it
\* writes fileInfo and error with A's outcome and leaves uploadedFile at B.
C17_StaleReadOverwrites ==
    [][\A r \in BagToSet(reads) :
          (uploadedFile # Some(r.file)) =>
             /\ (loadAsyncSettles(r) /\ r.file.zip) =>
                   /\ fileInfo' # Null
                   /\ Val(fileInfo').name = r.file.name
                   /\ error' = ""
                   /\ uploadedFile' = uploadedFile
             /\ ReadFails(r) =>
                   /\ fileInfo' = Null
                   /\ error' = MsgReadFailed
                   /\ uploadedFile' = uploadedFile]_vars

\* C17 witness: no read is in flight and fileInfo names another file than the
\* held one
C17_Witness ==
    /\ reads = EmptyBag
    /\ fileInfo # Null
    /\ uploadedFile # Null
    /\ Val(fileInfo).name # Val(uploadedFile).name

\* C18: at most one request is in flight.  A request is sent only by a Start
\* taken while isProcessing is false and nothing is in flight, and that step sets
\* isProcessing; isProcessing goes back to false only in the step that handles
\* the request; a response is applied only to the submission in flight.
C18_OneRequestInFlight ==
    [][/\ RequestSent =>
            /\ handleStart
            /\ ~isProcessing /\ formData = Null /\ pc = "idle"
            /\ isProcessing' /\ pc' = "fetch"
       /\ (isProcessing /\ ~isProcessing') =>
            /\ pc # "idle" /\ formData # Null
            /\ pc' = "idle" /\ formData' = Null
       /\ isProcessing' <=> formData' # Null
       /\ (amendedSlidesCount' # Null /\ amendedSlidesCount = Null) =>
            /\ isProcessing /\ pc = "json"
            /\ submittedFile' = Some(Val(formData).file)]_vars

\* C18 witness: a request is in flight, its response awaited
C18_Witness ==
    /\ isProcessing
    /\ pc = "fetch"
    /\ formData # Null
    /\ submittedFile = Some(Val(formData).file)

\* C19: with the handling of a response as one step, correctedFileUrl and
\* amendedSlidesCount are null whenever isProcessing is true.
C19_NoResultWhileProcessing ==
    isProcessing => (correctedFileUrl = Null /\ amendedSlidesCount = Null)

\* C19 witness: a submission is in flight for a held file whose metadata is on
\* display, with both result cells null
C19_Witness ==
    /\ isProcessing
    /\ fileInfo # Null
    /\ Val(fileInfo).name = Val(uploadedFile).name
    /\ correctedFileUrl = Null
    /\ amendedSlidesCount = Null

\* the messages a rejected or failed submission sets
SubmissionMessages ==
    {MsgNoReport, MsgNoFile, MsgNoOption, MsgNotOk, MsgFallback}
    \cup {o.message : o \in {x \in FetchOutcomes : x.kind = "reject" /\ x.message # ""}}
    \cup {o.message : o \in {x \in JsonOutcomes : x.message # ""}}

\* a step of the user selecting a file or pressing Start
SelectionOrStart ==
    \/ \E files \in {<<>>} \cup {<<f>> : f \in Files} : handleFileChange(files)
    \/ handleStart

\* a step in which an archive read in flight settles
ReadSettles ==
    \E r \in BagToSet(reads) : arrayBufferSettles(r) \/ loadAsyncSettles(r)

\* C20 as stated: a message set by a rejected or failed submission changes only
\* in a step of file selection or Start.
C20_SubmissionErrorStays ==
    [][(error \in SubmissionMessages /\ error' # error) => SelectionOrStart]_vars

\* C20 amended: a message set by a rejected or failed submission changes only in
\* a step of file selection or Start, or when an archive read in flight settles;
\* with no read in flight only a file selection or Start changes it.
C20_SubmissionErrorStaysUnlessReadSettles ==
    [][(error \in SubmissionMessages /\ error' # error) =>
          \/ SelectionOrStart
          \/ reads # EmptyBag /\ ReadSettles]_vars

\* C20 witness: a submission's message is on display while an archive read that
\* was started before the submission is still in flight
C20_Witness ==
    /\ error \in SubmissionMessages
    /\ reads # EmptyBag
    /\ ~isProcessing
    /\ pc = "idle"

====
